---------------------------- MODULE Spec2Model ----------------------------
(***************************************************************************)
(* A model of the Djerba interpreter (src/djerba.py): the lexer, the       *)
(* parser, the environment chain and the tree-walking evaluator.           *)
(*                                                                         *)
(* The evaluator is modelled as an abstract machine.  `ctl` is what the    *)
(* interpreter is doing now (evaluating a statement or an expression,      *)
(* holding a value, or propagating a raised Python exception), `k` is the  *)
(* stack of pending Python activations of eval_stmt / eval_expr /          *)
(* run_block, each recorded with the position at which it resumes.         *)
(* `frames` is the set of live Environment objects, `heap` the Python list *)
(* objects (lists have reference identity).                                *)
(*                                                                         *)
(* Numbers are Python floats in the source; the evaluator model uses the   *)
(* integer-valued ones, with the operators + - * of BinOp.  The Index      *)
(* model (SpecIndex) keeps fractional indices, in halves.                  *)
(*                                                                         *)
(* The parser (SpecParse) is modelled by its control: `parser` holds the   *)
(* tokens, the position self.i and the stack of Parser methods in          *)
(* progress.  The nodes it builds do not steer it and are not kept, except *)
(* the decoded value of a STRING, whose decoding can fail.                 *)
(***************************************************************************)
EXTENDS Integers, Sequences, FiniteSets

VARIABLES
    prog,       \* the Program being run: [id, body]
    frames,     \* live Environment objects, frames[1] is the root
    heap,       \* Python list objects, by reference
    ctl,        \* current control of the evaluator
    k,          \* pending activations (continuations), innermost last
    out,        \* lines written by Print
    status,     \* "running" | "done" | "error"
    err,        \* the uncaught exception, when status = "error"
    lx,         \* lexer state (SpecLex)
    ix,         \* Index evaluation state (SpecIndex)
    parser      \* Parser state (SpecParse)

vars == <<prog, frames, heap, ctl, k, out, status, err, lx, ix, parser>>

evalVars == <<prog, frames, heap, ctl, k, out, status, err>>

-----------------------------------------------------------------------------
(* Bounds *)

\* deepest nesting of If blocks generated around a statement
MaxDepth == 3

\* longest list built by the aliasing programs
MaxOps == 2

\* longest source text given to the lexer
MaxSrcLen == 3

\* longest list or string indexed in SpecIndex
MaxLen == 3

-----------------------------------------------------------------------------
(* AST nodes: the dataclasses of the parser *)

Num(v)                == [type |-> "Num", value |-> v]
Str(s)                == [type |-> "Str", value |-> s]
Bool(b)               == [type |-> "Bool", value |-> b]
List_(es)             == [type |-> "List_", elements |-> es]
Var(n)                == [type |-> "Var", name |-> n]
Index(o, i)           == [type |-> "Index", obj |-> o, idx |-> i]
Call(n, as)           == [type |-> "Call", name |-> n, args |-> as]
BinOp(op, l, r)       == [type |-> "BinOp", op |-> op, left |-> l, right |-> r]
Compare(op, l, r)     == [type |-> "Compare", op |-> op, left |-> l, right |-> r]
LogicalOp(op, l, r)   == [type |-> "LogicalOp", op |-> op, left |-> l, right |-> r]
LogicalNot(l)         == [type |-> "LogicalOp", op |-> "not", left |-> l]

Print_(as)            == [type |-> "Print", args |-> as]
Assign(n, e)          == [type |-> "Assign", name |-> n, expr |-> e]
If(c, t)              == [type |-> "If", cond |-> c, then |-> t, hasEls |-> FALSE, els |-> <<>>]
IfElse(c, t, e)       == [type |-> "If", cond |-> c, then |-> t, hasEls |-> TRUE, els |-> e]
While(c, b)           == [type |-> "While", cond |-> c, body |-> b]
ForLoop(v, it, b)     == [type |-> "ForLoop", var |-> v, iterable |-> it, body |-> b]
FuncDef(n, ps, b)     == [type |-> "FuncDef", name |-> n, params |-> ps, body |-> b]
Return(e)             == [type |-> "Return", expr |-> e]
Break                 == [type |-> "Break"]
Continue              == [type |-> "Continue"]

StmtTypes == {"Print", "Assign", "If", "While", "ForLoop", "FuncDef",
              "Return", "Break", "Continue"}

\* Parser.unary: unary minus is desugared to (-1) * x
unary(x) == BinOp("*", Num(-1), x)

-----------------------------------------------------------------------------
(* Runtime values *)

VNum(n)     == [t |-> "num", n |-> n]
VBool(b)    == [t |-> "bool", b |-> b]
VStr(s)     == [t |-> "str", s |-> s]
VList(r)    == [t |-> "list", ref |-> r]
VBuiltin(n) == [t |-> "builtin", name |-> n]
VFloat(n)   == [t |-> "float", name |-> n]
VNone       == [t |-> "none"]

\* truthy(v) is bool(v)
truthy(h, v) ==
    CASE v.t = "bool"    -> v.b
      [] v.t = "num"     -> v.n # 0
      [] v.t = "str"     -> Len(v.s) > 0
      [] v.t = "list"    -> Len(h[v.ref]) > 0
      [] v.t = "none"    -> FALSE
      [] v.t = "float"   -> TRUE
      [] v.t = "builtin" -> TRUE

\* callable(fn), for fn = env.vars.get(name), None when absent
callable(v) == v.t = "builtin"

IsNumeric(v) == v.t \in {"num", "bool"}

\* the number a bool or number stands for in arithmetic and comparison
NumOf(v) == IF v.t = "bool" THEN (IF v.b THEN 1 ELSE 0) ELSE v.n

-----------------------------------------------------------------------------
(* Environment *)

EmptyMap == <<>>

Has(m, n) == n \in DOMAIN m

Put(m, n, v) == [x \in DOMAIN m \cup {n} |-> IF x = n THEN v ELSE m[x]]

\* Environment.__init__
Environment(parent) == [parent |-> parent, vars |-> EmptyMap, funcs |-> EmptyMap]

\* Environment.get: found, walking to the parent while there is one
RECURSIVE EnvHas(_, _, _)
EnvHas(fs, e, name) ==
    IF Has(fs[e].vars, name) THEN TRUE
    ELSE IF fs[e].parent # 0 THEN EnvHas(fs, fs[e].parent, name)
    ELSE FALSE

RECURSIVE EnvGet(_, _, _)
EnvGet(fs, e, name) ==
    IF Has(fs[e].vars, name) THEN fs[e].vars[name]
    ELSE EnvGet(fs, fs[e].parent, name)

\* Environment.set
RECURSIVE EnvSet(_, _, _, _)
EnvSet(fs, e, name, value) ==
    IF Has(fs[e].vars, name)
    THEN [fs EXCEPT ![e].vars = Put(@, name, value)]
    ELSE IF fs[e].parent # 0 /\ Has(fs[fs[e].parent].vars, name)
    THEN EnvSet(fs, fs[e].parent, name, value)
    ELSE [fs EXCEPT ![e].vars = Put(@, name, value)]

\* Environment.define_func
DefineFunc(fs, e, f) == [fs EXCEPT ![e].funcs = Put(@, f.name, f)]

\* Environment.get_func
RECURSIVE FuncVisible(_, _, _)
FuncVisible(fs, e, name) ==
    IF Has(fs[e].funcs, name) THEN TRUE
    ELSE IF fs[e].parent # 0 THEN FuncVisible(fs, fs[e].parent, name)
    ELSE FALSE

RECURSIVE GetFunc(_, _, _)
GetFunc(fs, e, name) ==
    IF Has(fs[e].funcs, name) THEN fs[e].funcs[name]
    ELSE GetFunc(fs, fs[e].parent, name)

-----------------------------------------------------------------------------
(* eval_program: the root environment *)

BuiltinNames == {"sin", "cos", "tan", "sqrt", "abs", "floor", "ceil", "round",
                 "min", "max", "pow", "len", "upper", "lower", "substr",
                 "push", "pop", "append", "input", "type", "range", "print"}

RootVars == [n \in BuiltinNames \cup {"PI", "E"} |->
                IF n \in BuiltinNames THEN VBuiltin(n) ELSE VFloat(n)]

RootEnv == [parent |-> 0, vars |-> RootVars, funcs |-> EmptyMap]

-----------------------------------------------------------------------------
(* Control and continuations *)

CStmt(node, env) == [m |-> "stmt", node |-> node, env |-> env]
CExpr(node, env) == [m |-> "expr", node |-> node, env |-> env]
CVal(v)          == [m |-> "val", v |-> v]
COk              == [m |-> "ok"]
CSig(sig, v)     == [m |-> "sig", sig |-> sig, v |-> v]
CHalt            == [m |-> "halt"]

NameErrorVar(n)  == CSig("NameError", [what |-> "variable", name |-> n])
NameErrorFunc(n) == CSig("NameError", [what |-> "function", name |-> n])

Top(s)     == s[Len(s)]
Pop(s)     == SubSeq(s, 1, Len(s) - 1)
Push(s, x) == Append(s, x)
SetTop(s, x) == Append(Pop(s), x)

OnTop(kind) == k # <<>> /\ Top(k).k = kind

IsStmt(type) == status = "running" /\ ctl.m = "stmt" /\ ctl.node.type = type
IsExpr(type) == status = "running" /\ ctl.m = "expr" /\ ctl.node.type = type
ValAt(kind)  == status = "running" /\ ctl.m = "val" /\ OnTop(kind)
OkAt(kind)   == status = "running" /\ ctl.m = "ok" /\ OnTop(kind)
SigAt(kind)  == status = "running" /\ ctl.m = "sig" /\ OnTop(kind)

\* the frames live once the Environment `child` has gone out of scope
Release(fs, child) == SubSeq(fs, 1, child - 1)

\* run_block(stmts, env), entered with kk pending
RunBlock(stmts, env, kk) ==
    IF stmts = <<>>
    THEN [ctl |-> COk, k |-> kk]
    ELSE [ctl |-> CStmt(stmts[1], env),
          k |-> Push(kk, [k |-> "Block", stmts |-> stmts, i |-> 1, env |-> env])]

-----------------------------------------------------------------------------
(* eval_stmt *)

\* Print: the arguments are evaluated left to right, then written
eval_stmt_Print ==
    /\ IsStmt("Print")
    /\ ctl' = CExpr(ctl.node.args[1], ctl.env)
    /\ k' = Push(k, [k |-> "Print", node |-> ctl.node, i |-> 1,
                     vals |-> <<>>, env |-> ctl.env])
    /\ UNCHANGED <<lx, ix, parser, prog, frames, heap, out, status, err>>

\* what print(*vals) shows of a value: a list by its elements now
Shown(h, v) == IF v.t = "list" THEN [t |-> "list", elems |-> h[v.ref]] ELSE v

Print_arg ==
    /\ ValAt("Print")
    /\ LET c == Top(k)
           vals == Append(c.vals, ctl.v)
       IN IF c.i < Len(c.node.args)
          THEN /\ ctl' = CExpr(c.node.args[c.i + 1], c.env)
               /\ k' = SetTop(k, [c EXCEPT !.i = c.i + 1, !.vals = vals])
               /\ out' = out
          ELSE /\ ctl' = COk
               /\ k' = Pop(k)
               /\ out' = Append(out, [j \in 1..Len(vals) |-> Shown(heap, vals[j])])
    /\ UNCHANGED <<lx, ix, parser, prog, frames, heap, status, err>>

\* Assign: env.set(node.name, eval_expr(node.expr, env))
eval_stmt_Assign ==
    /\ IsStmt("Assign")
    /\ ctl' = CExpr(ctl.node.expr, ctl.env)
    /\ k' = Push(k, [k |-> "Assign", name |-> ctl.node.name, env |-> ctl.env])
    /\ UNCHANGED <<lx, ix, parser, prog, frames, heap, out, status, err>>

\* Assign storing a copy of a list value instead of the list itself
AssignEffect_copy(fs, h, env, name, value) ==
    IF value.t = "list"
    THEN [frames |-> EnvSet(fs, env, name, VList(Len(h) + 1)),
          heap |-> Append(h, h[value.ref])]
    ELSE [frames |-> EnvSet(fs, env, name, value), heap |-> h]

\* the state after env.set(name, value): the value itself is stored
AssignEffect(fs, h, env, name, value) ==
    [frames |-> EnvSet(fs, env, name, value), heap |-> h]

Assign_set ==
    /\ ValAt("Assign")
    /\ LET c == Top(k)
           r == AssignEffect(frames, heap, c.env, c.name, ctl.v)
       IN /\ frames' = r.frames
          /\ heap' = r.heap
    /\ ctl' = COk
    /\ k' = Pop(k)
    /\ UNCHANGED <<lx, ix, parser, prog, out, status, err>>

\* If: the condition, then one block in a fresh Environment(env)
eval_stmt_If ==
    /\ IsStmt("If")
    /\ ctl' = CExpr(ctl.node.cond, ctl.env)
    /\ k' = Push(k, [k |-> "If", node |-> ctl.node, env |-> ctl.env])
    /\ UNCHANGED <<lx, ix, parser, prog, frames, heap, out, status, err>>

If_cond ==
    /\ ValAt("If")
    /\ LET c == Top(k)
           child == Len(frames) + 1
           scope == [k |-> "Scope", child |-> child]
       IN IF truthy(heap, ctl.v)
          THEN LET r == RunBlock(c.node.then, child, SetTop(k, scope))
               IN /\ frames' = Append(frames, Environment(c.env))
                  /\ ctl' = r.ctl
                  /\ k' = r.k
          ELSE IF c.node.hasEls
          THEN LET r == RunBlock(c.node.els, child, SetTop(k, scope))
               IN /\ frames' = Append(frames, Environment(c.env))
                  /\ ctl' = r.ctl
                  /\ k' = r.k
          ELSE /\ frames' = frames
               /\ ctl' = COk
               /\ k' = Pop(k)
    /\ UNCHANGED <<lx, ix, parser, prog, heap, out, status, err>>

\* the block of an If has run: its Environment goes out of scope
If_done ==
    /\ OkAt("Scope")
    /\ frames' = Release(frames, Top(k).child)
    /\ ctl' = COk
    /\ k' = Pop(k)
    /\ UNCHANGED <<lx, ix, parser, prog, heap, out, status, err>>

\* run_block: the next statement of the block, or its end
run_block_next ==
    /\ OkAt("Block")
    /\ LET c == Top(k)
       IN IF c.i < Len(c.stmts)
          THEN /\ ctl' = CStmt(c.stmts[c.i + 1], c.env)
               /\ k' = SetTop(k, [c EXCEPT !.i = c.i + 1])
          ELSE /\ ctl' = COk
               /\ k' = Pop(k)
    /\ UNCHANGED <<lx, ix, parser, prog, frames, heap, out, status, err>>

\* While: `while truthy(eval_expr(node.cond, env))`
eval_stmt_While ==
    /\ IsStmt("While")
    /\ ctl' = CExpr(ctl.node.cond, ctl.env)
    /\ k' = Push(k, [k |-> "While", node |-> ctl.node, env |-> ctl.env])
    /\ UNCHANGED <<lx, ix, parser, prog, frames, heap, out, status, err>>

While_cond ==
    /\ ValAt("While")
    /\ LET c == Top(k)
           child == Len(frames) + 1
       IN IF truthy(heap, ctl.v)
          THEN LET r == RunBlock(c.node.body, child,
                                 SetTop(k, [k |-> "WhileBody", node |-> c.node,
                                            env |-> c.env, child |-> child]))
               IN /\ frames' = Append(frames, Environment(c.env))
                  /\ ctl' = r.ctl
                  /\ k' = r.k
          ELSE /\ frames' = frames
               /\ ctl' = COk
               /\ k' = Pop(k)
    /\ UNCHANGED <<lx, ix, parser, prog, heap, out, status, err>>

\* the body ran to its end: the condition is evaluated again
While_body_done ==
    /\ OkAt("WhileBody")
    /\ LET c == Top(k)
       IN /\ frames' = Release(frames, c.child)
          /\ ctl' = CExpr(c.node.cond, c.env)
          /\ k' = SetTop(k, [k |-> "While", node |-> c.node, env |-> c.env])
    /\ UNCHANGED <<lx, ix, parser, prog, heap, out, status, err>>

\* the signals the try of While handles:
\*   except ContinueSignal: continue / except BreakSignal: break /
\*   except ReturnSignal: pass
WhileHandles(sig) == sig \in {"ContinueSignal", "BreakSignal", "ReturnSignal"}

While_except ==
    /\ SigAt("WhileBody")
    /\ WhileHandles(ctl.sig)
    /\ LET c == Top(k)
       IN /\ frames' = Release(frames, c.child)
          /\ IF ctl.sig = "BreakSignal"
             THEN /\ ctl' = COk
                  /\ k' = Pop(k)
             ELSE /\ ctl' = CExpr(c.node.cond, c.env)
                  /\ k' = SetTop(k, [k |-> "While", node |-> c.node, env |-> c.env])
    /\ UNCHANGED <<lx, ix, parser, prog, heap, out, status, err>>

\* ForLoop: the iterable is evaluated once, then iterated
eval_stmt_ForLoop ==
    /\ IsStmt("ForLoop")
    /\ ctl' = CExpr(ctl.node.iterable, ctl.env)
    /\ k' = Push(k, [k |-> "ForIterable", node |-> ctl.node, env |-> ctl.env])
    /\ UNCHANGED <<lx, ix, parser, prog, frames, heap, out, status, err>>

\* hasattr(iterable, '__iter__')
Iterable(v) == v.t \in {"list", "str"}

ItemCount(h, it) == IF it.t = "list" THEN Len(h[it.ref]) ELSE Len(it.s)

ItemAt(h, it, i) == IF it.t = "list" THEN h[it.ref][i] ELSE VStr(<<it.s[i]>>)

\* `for item in iterable`: the next item in a fresh child Environment, or the
\* end of the loop; `done` items have been taken, kk is pending under the loop
ForNext(fs, h, node, env, it, done, kk) ==
    IF done < ItemCount(h, it)
    THEN LET child == Len(fs) + 1
             r == RunBlock(node.body, child,
                           Push(kk, [k |-> "ForBody", node |-> node, env |-> env,
                                     it |-> it, done |-> done + 1, child |-> child]))
         IN [frames |-> Append(fs, [Environment(env) EXCEPT
                                      !.vars = Put(@, node.var, ItemAt(h, it, done + 1))]),
             ctl |-> r.ctl, k |-> r.k]
    ELSE [frames |-> fs, ctl |-> COk, k |-> kk]

ForLoop_iter ==
    /\ ValAt("ForIterable")
    /\ LET c == Top(k)
       IN IF ~Iterable(ctl.v)
          THEN /\ ctl' = CSig("TypeError", VNone)
               /\ k' = Pop(k)
               /\ frames' = frames
          ELSE LET r == ForNext(frames, heap, c.node, c.env, ctl.v, 0, Pop(k))
               IN /\ frames' = r.frames
                  /\ ctl' = r.ctl
                  /\ k' = r.k
    /\ UNCHANGED <<lx, ix, parser, prog, heap, out, status, err>>

ForLoop_body_done ==
    /\ OkAt("ForBody")
    /\ LET c == Top(k)
           r == ForNext(Release(frames, c.child), heap, c.node, c.env, c.it,
                        c.done, Pop(k))
       IN /\ frames' = r.frames
          /\ ctl' = r.ctl
          /\ k' = r.k
    /\ UNCHANGED <<lx, ix, parser, prog, heap, out, status, err>>

\* the signals the try of ForLoop handles:
\*   except ContinueSignal: continue / except BreakSignal: break
ForHandles(sig) == sig \in {"ContinueSignal", "BreakSignal"}

ForLoop_except ==
    /\ SigAt("ForBody")
    /\ ForHandles(ctl.sig)
    /\ LET c == Top(k)
           r == ForNext(Release(frames, c.child), heap, c.node, c.env, c.it,
                        c.done, Pop(k))
       IN IF ctl.sig = "BreakSignal"
          THEN /\ frames' = Release(frames, c.child)
               /\ ctl' = COk
               /\ k' = Pop(k)
          ELSE /\ frames' = r.frames
               /\ ctl' = r.ctl
               /\ k' = r.k
    /\ UNCHANGED <<lx, ix, parser, prog, heap, out, status, err>>

\* FuncDef: env.define_func(node)
eval_stmt_FuncDef ==
    /\ IsStmt("FuncDef")
    /\ frames' = DefineFunc(frames, ctl.env, ctl.node)
    /\ ctl' = COk
    /\ UNCHANGED <<lx, ix, parser, prog, heap, k, out, status, err>>

\* Return: val = eval_expr(node.expr, env); raise ReturnSignal(val)
eval_stmt_Return ==
    /\ IsStmt("Return")
    /\ ctl' = CExpr(ctl.node.expr, ctl.env)
    /\ k' = Push(k, [k |-> "Return"])
    /\ UNCHANGED <<lx, ix, parser, prog, frames, heap, out, status, err>>

Return_raise ==
    /\ ValAt("Return")
    /\ ctl' = CSig("ReturnSignal", ctl.v)
    /\ k' = Pop(k)
    /\ UNCHANGED <<lx, ix, parser, prog, frames, heap, out, status, err>>

\* Break: raise BreakSignal()
eval_stmt_Break ==
    /\ IsStmt("Break")
    /\ ctl' = CSig("BreakSignal", VNone)
    /\ UNCHANGED <<lx, ix, parser, prog, frames, heap, k, out, status, err>>

\* Continue: raise ContinueSignal()
eval_stmt_Continue ==
    /\ IsStmt("Continue")
    /\ ctl' = CSig("ContinueSignal", VNone)
    /\ UNCHANGED <<lx, ix, parser, prog, frames, heap, k, out, status, err>>

\* Expression-only statement: eval_expr(node, env), the value dropped
eval_stmt_Expr ==
    /\ status = "running"
    /\ ctl.m = "stmt"
    /\ ctl.node.type \notin StmtTypes
    /\ ctl' = CExpr(ctl.node, ctl.env)
    /\ k' = Push(k, [k |-> "ExprStmt"])
    /\ UNCHANGED <<lx, ix, parser, prog, frames, heap, out, status, err>>

ExprStmt_done ==
    /\ ValAt("ExprStmt")
    /\ ctl' = COk
    /\ k' = Pop(k)
    /\ UNCHANGED <<lx, ix, parser, prog, frames, heap, out, status, err>>

-----------------------------------------------------------------------------
(* eval_expr *)

eval_expr_Num ==
    /\ IsExpr("Num")
    /\ ctl' = CVal(VNum(ctl.node.value))
    /\ UNCHANGED <<lx, ix, parser, prog, frames, heap, k, out, status, err>>

eval_expr_Str ==
    /\ IsExpr("Str")
    /\ ctl' = CVal(VStr(ctl.node.value))
    /\ UNCHANGED <<lx, ix, parser, prog, frames, heap, k, out, status, err>>

eval_expr_Bool ==
    /\ IsExpr("Bool")
    /\ ctl' = CVal(VBool(ctl.node.value))
    /\ UNCHANGED <<lx, ix, parser, prog, frames, heap, k, out, status, err>>

\* List_: [eval_expr(e, env) for e in node.elements], a new list object
eval_expr_List ==
    /\ IsExpr("List_")
    /\ IF ctl.node.elements = <<>>
       THEN /\ heap' = Append(heap, <<>>)
            /\ ctl' = CVal(VList(Len(heap) + 1))
            /\ k' = k
       ELSE /\ heap' = heap
            /\ ctl' = CExpr(ctl.node.elements[1], ctl.env)
            /\ k' = Push(k, [k |-> "List", node |-> ctl.node, i |-> 1,
                             vals |-> <<>>, env |-> ctl.env])
    /\ UNCHANGED <<lx, ix, parser, prog, frames, out, status, err>>

List_elem ==
    /\ ValAt("List")
    /\ LET c == Top(k)
           vals == Append(c.vals, ctl.v)
       IN IF c.i < Len(c.node.elements)
          THEN /\ ctl' = CExpr(c.node.elements[c.i + 1], c.env)
               /\ k' = SetTop(k, [c EXCEPT !.i = c.i + 1, !.vals = vals])
               /\ heap' = heap
          ELSE /\ heap' = Append(heap, vals)
               /\ ctl' = CVal(VList(Len(heap) + 1))
               /\ k' = Pop(k)
    /\ UNCHANGED <<lx, ix, parser, prog, frames, out, status, err>>

\* Var: env.get(node.name), NameError re-raised
eval_expr_Var ==
    /\ IsExpr("Var")
    /\ ctl' = IF EnvHas(frames, ctl.env, ctl.node.name)
              THEN CVal(EnvGet(frames, ctl.env, ctl.node.name))
              ELSE NameErrorVar(ctl.node.name)
    /\ UNCHANGED <<lx, ix, parser, prog, frames, heap, k, out, status, err>>

\* BinOp and Compare: l = eval_expr(left); r = eval_expr(right)
eval_expr_BinOp ==
    /\ IsExpr("BinOp")
    /\ ctl' = CExpr(ctl.node.left, ctl.env)
    /\ k' = Push(k, [k |-> "BinLeft", node |-> ctl.node, env |-> ctl.env])
    /\ UNCHANGED <<lx, ix, parser, prog, frames, heap, out, status, err>>

eval_expr_Compare ==
    /\ IsExpr("Compare")
    /\ ctl' = CExpr(ctl.node.left, ctl.env)
    /\ k' = Push(k, [k |-> "BinLeft", node |-> ctl.node, env |-> ctl.env])
    /\ UNCHANGED <<lx, ix, parser, prog, frames, heap, out, status, err>>

Bin_left ==
    /\ ValAt("BinLeft")
    /\ LET c == Top(k)
       IN /\ ctl' = CExpr(c.node.right, c.env)
          /\ k' = SetTop(k, [k |-> "BinRight", node |-> c.node, l |-> ctl.v])
    /\ UNCHANGED <<lx, ix, parser, prog, frames, heap, out, status, err>>

\* the operand kinds for which the model gives the operator's result
BinOpModelled(op, l, r) ==
    /\ op \in {"+", "-", "*"}
    /\ \/ IsNumeric(l) /\ IsNumeric(r)
       \/ l.t = "str" /\ r.t = "str" /\ op \in {"+", "-"}
       \/ l.t \in {"none", "builtin"} \/ r.t \in {"none", "builtin"}
       \/ op \in {"+", "-"} /\ IsNumeric(l) /\ r.t \in {"str", "list"}
       \/ op \in {"+", "-"} /\ l.t \in {"str", "list"} /\ IsNumeric(r)

\* l + r, l - r, l * r: a value, or TypeError
BinOpResult(op, l, r) ==
    IF IsNumeric(l) /\ IsNumeric(r)
    THEN CVal(VNum(CASE op = "+" -> NumOf(l) + NumOf(r)
                     [] op = "-" -> NumOf(l) - NumOf(r)
                     [] op = "*" -> NumOf(l) * NumOf(r)))
    ELSE IF l.t = "str" /\ r.t = "str" /\ op = "+"
    THEN CVal(VStr(l.s \o r.s))
    ELSE CSig("TypeError", VNone)

BinOp_right ==
    /\ ValAt("BinRight")
    /\ Top(k).node.type = "BinOp"
    /\ BinOpModelled(Top(k).node.op, Top(k).l, ctl.v)
    /\ ctl' = BinOpResult(Top(k).node.op, Top(k).l, ctl.v)
    /\ k' = Pop(k)
    /\ UNCHANGED <<lx, ix, parser, prog, frames, heap, out, status, err>>

CmpOps == {"==", "!=", "<", ">", "<=", ">="}

CompareModelled(op, l, r) ==
    /\ op \in CmpOps
    /\ \/ IsNumeric(l) /\ IsNumeric(r)
       \/ l.t = "str" /\ r.t = "str" /\ op \in {"==", "!="}
       \/ l.t = "none" \/ r.t = "none"

CompareResult(op, l, r) ==
    IF IsNumeric(l) /\ IsNumeric(r)
    THEN CVal(VBool(CASE op = "==" -> NumOf(l) = NumOf(r)
                      [] op = "!=" -> NumOf(l) # NumOf(r)
                      [] op = "<"  -> NumOf(l) < NumOf(r)
                      [] op = ">"  -> NumOf(l) > NumOf(r)
                      [] op = "<=" -> NumOf(l) <= NumOf(r)
                      [] op = ">=" -> NumOf(l) >= NumOf(r)))
    ELSE IF l.t = "str" /\ r.t = "str"
    THEN CVal(VBool((op = "==") = (l.s = r.s)))
    ELSE IF op \in {"==", "!="}
    THEN CVal(VBool((op = "==") = (l.t = r.t)))
    ELSE CSig("TypeError", VNone)

Compare_right ==
    /\ ValAt("BinRight")
    /\ Top(k).node.type = "Compare"
    /\ CompareModelled(Top(k).node.op, Top(k).l, ctl.v)
    /\ ctl' = CompareResult(Top(k).node.op, Top(k).l, ctl.v)
    /\ k' = Pop(k)
    /\ UNCHANGED <<lx, ix, parser, prog, frames, heap, out, status, err>>

\* LogicalOp
eval_expr_LogicalOp ==
    /\ IsExpr("LogicalOp")
    /\ ctl' = CExpr(ctl.node.left, ctl.env)
    /\ k' = Push(k, IF ctl.node.op = "not"
                    THEN [k |-> "Not"]
                    ELSE [k |-> "LogLeft", node |-> ctl.node, env |-> ctl.env])
    /\ UNCHANGED <<lx, ix, parser, prog, frames, heap, out, status, err>>

\* not truthy(eval_expr(node.left, env))
Logical_not ==
    /\ ValAt("Not")
    /\ ctl' = CVal(VBool(~truthy(heap, ctl.v)))
    /\ k' = Pop(k)
    /\ UNCHANGED <<lx, ix, parser, prog, frames, heap, out, status, err>>

\* a LogicalOp that evaluates both operands whatever the left one is
NeedsRight_eager(op, tl) == TRUE

\* whether Python goes on to evaluate the right operand of
\*   truthy(l) and truthy(eval_expr(node.right, env))
\*   truthy(l) or  truthy(eval_expr(node.right, env))
\* given truthy(l)
NeedsRight(op, tl) == IF op = "and" THEN tl ELSE ~tl

Logical_left ==
    /\ ValAt("LogLeft")
    /\ Top(k).node.op \in {"and", "or"}
    /\ LET c == Top(k)
           tl == truthy(heap, ctl.v)
       IN IF NeedsRight(c.node.op, tl)
          THEN /\ ctl' = CExpr(c.node.right, c.env)
               /\ k' = SetTop(k, [k |-> "LogRight"])
          ELSE /\ ctl' = CVal(VBool(tl))
               /\ k' = Pop(k)
    /\ UNCHANGED <<lx, ix, parser, prog, frames, heap, out, status, err>>

Logical_right ==
    /\ ValAt("LogRight")
    /\ ctl' = CVal(VBool(truthy(heap, ctl.v)))
    /\ k' = Pop(k)
    /\ UNCHANGED <<lx, ix, parser, prog, frames, heap, out, status, err>>

\* Index: obj[int(idx)] for a list or a str
eval_expr_Index ==
    /\ IsExpr("Index")
    /\ ctl' = CExpr(ctl.node.obj, ctl.env)
    /\ k' = Push(k, [k |-> "IndexObj", node |-> ctl.node, env |-> ctl.env])
    /\ UNCHANGED <<lx, ix, parser, prog, frames, heap, out, status, err>>

Index_obj ==
    /\ ValAt("IndexObj")
    /\ ctl' = CExpr(Top(k).node.idx, Top(k).env)
    /\ k' = SetTop(k, [k |-> "IndexIdx", obj |-> ctl.v])
    /\ UNCHANGED <<lx, ix, parser, prog, frames, heap, out, status, err>>

\* int(x) of a float x given in halves (x = x2 / 2): truncation toward zero
PyInt(x2) == IF x2 >= 0 THEN x2 \div 2 ELSE -((-x2) \div 2)

\* a subscript check that rejects every negative index
InRange_nonneg(n, i) == 0 <= i /\ i < n

\* the integer subscripts i for which seq[i] of a Python sequence of length n
\* yields an item
InRange(n, i) == -n <= i /\ i < n

\* the item seq[i] names, counted from 1: a negative i counts from the end
Position(n, i) == IF i < 0 THEN n + i + 1 ELSE i + 1

\* seq[int(idx)]
Subscript(seq, x2) ==
    LET i == PyInt(x2)
    IN IF InRange(Len(seq), i)
       THEN [ok |-> TRUE, pos |-> Position(Len(seq), i)]
       ELSE [ok |-> FALSE, pos |-> 0]

IndexModelled(obj, idx) ==
    obj.t \in {"list", "str"} => idx.t \in {"num", "bool", "list", "none", "builtin"}

IndexResult(h, obj, idx) ==
    IF obj.t \notin {"list", "str"} THEN CSig("TypeError", VNone)
    ELSE IF ~IsNumeric(idx) THEN CSig("TypeError", VNone)
    ELSE LET seq == IF obj.t = "list" THEN h[obj.ref] ELSE obj.s
             s == Subscript(seq, 2 * NumOf(idx))
         IN IF ~s.ok THEN CSig("IndexError", VNone)
            ELSE IF obj.t = "list" THEN CVal(seq[s.pos])
            ELSE CVal(VStr(<<seq[s.pos]>>))

Index_idx ==
    /\ ValAt("IndexIdx")
    /\ IndexModelled(Top(k).obj, ctl.v)
    /\ ctl' = IndexResult(heap, Top(k).obj, ctl.v)
    /\ k' = Pop(k)
    /\ UNCHANGED <<lx, ix, parser, prog, frames, heap, out, status, err>>

-----------------------------------------------------------------------------
(* eval_expr, Call *)

\* the parent given to the Environment of a call made from frame env
CallParent(env) == env

\* the frame in which `fn = env.vars.get(node.name)` looks the built-in up,
\* for a call evaluated in frame env
BuiltinFrame(env) == env

\* except NameError: try a built-in callable in vars, else re-raise `raised`
BuiltinFallback(fs, raised, node, env, kk) ==
    LET fv == fs[BuiltinFrame(env)].vars
    IN IF Has(fv, node.name) /\ callable(fv[node.name])
       THEN LET c == [k |-> "Builtin", fn |-> fv[node.name], node |-> node,
                      i |-> 1, vals |-> <<>>, env |-> env]
            IN IF node.args = <<>>
               THEN [ctl |-> [m |-> "apply"], k |-> Push(kk, c)]
               ELSE [ctl |-> CExpr(node.args[1], env), k |-> Push(kk, c)]
       ELSE [ctl |-> raised, k |-> kk]

eval_expr_Call ==
    /\ IsExpr("Call")
    /\ LET node == ctl.node
           env == ctl.env
       IN IF FuncVisible(frames, env, node.name)
          THEN LET f == GetFunc(frames, env, node.name)
                   child == Len(frames) + 1
                   kk == Push(k, [k |-> "CallTry", node |-> node, env |-> env])
               IN IF Len(node.args) # Len(f.params)
                  THEN /\ ctl' = CSig("TypeError", VNone)
                       /\ k' = k
                       /\ frames' = frames
                  ELSE /\ frames' = Append(frames, Environment(CallParent(env)))
                       /\ IF node.args = <<>>
                          THEN LET r == RunBlock(f.body, child,
                                           Push(kk, [k |-> "CallBody", child |-> child]))
                               IN ctl' = r.ctl /\ k' = r.k
                          ELSE /\ ctl' = CExpr(node.args[1], env)
                               /\ k' = Push(kk, [k |-> "CallArgs", f |-> f, node |-> node,
                                                 i |-> 1, child |-> child, env |-> env])
          ELSE LET r == BuiltinFallback(frames, NameErrorFunc(node.name), node, env, k)
               IN ctl' = r.ctl /\ k' = r.k /\ frames' = frames
    /\ UNCHANGED <<lx, ix, parser, prog, heap, out, status, err>>

\* child.vars[name] = eval_expr(arg, env), for each parameter in turn
Call_arg ==
    /\ ValAt("CallArgs")
    /\ LET c == Top(k)
       IN /\ frames' = [frames EXCEPT ![c.child].vars = Put(@, c.f.params[c.i], ctl.v)]
          /\ IF c.i < Len(c.node.args)
             THEN /\ ctl' = CExpr(c.node.args[c.i + 1], c.env)
                  /\ k' = SetTop(k, [c EXCEPT !.i = c.i + 1])
             ELSE LET r == RunBlock(c.f.body, c.child,
                                    SetTop(k, [k |-> "CallBody", child |-> c.child]))
                  IN ctl' = r.ctl /\ k' = r.k
    /\ UNCHANGED <<lx, ix, parser, prog, heap, out, status, err>>

\* run_block(f.body, child) ended without a signal: return None
Call_body_done ==
    /\ OkAt("CallBody")
    /\ frames' = Release(frames, Top(k).child)
    /\ ctl' = CVal(VNone)
    /\ k' = Pop(k)
    /\ UNCHANGED <<lx, ix, parser, prog, heap, out, status, err>>

\* except ReturnSignal as rs: return rs.value
Call_body_return ==
    /\ SigAt("CallBody")
    /\ ctl.sig = "ReturnSignal"
    /\ frames' = Release(frames, Top(k).child)
    /\ ctl' = CVal(ctl.v)
    /\ k' = Pop(k)
    /\ UNCHANGED <<lx, ix, parser, prog, heap, out, status, err>>

\* the outer try is left with the call's value
Call_return ==
    /\ ValAt("CallTry")
    /\ ctl' = ctl
    /\ k' = Pop(k)
    /\ UNCHANGED <<lx, ix, parser, prog, frames, heap, out, status, err>>

\* except NameError, for a NameError raised anywhere inside the outer try
Call_except ==
    /\ SigAt("CallTry")
    /\ ctl.sig = "NameError"
    /\ LET c == Top(k)
           r == BuiltinFallback(frames, ctl, c.node, c.env, Pop(k))
       IN ctl' = r.ctl /\ k' = r.k
    /\ UNCHANGED <<lx, ix, parser, prog, frames, heap, out, status, err>>

\* args = [eval_expr(a, env) for a in node.args]
Builtin_arg ==
    /\ ValAt("Builtin")
    /\ LET c == Top(k)
       IN /\ k' = SetTop(k, [c EXCEPT !.i = c.i + 1, !.vals = Append(c.vals, ctl.v)])
          /\ ctl' = IF c.i < Len(c.node.args)
                    THEN CExpr(c.node.args[c.i + 1], c.env)
                    ELSE [m |-> "apply"]
    /\ UNCHANGED <<lx, ix, parser, prog, frames, heap, out, status, err>>

-----------------------------------------------------------------------------
(* Built-ins of eval_program *)

Chars_bool    == <<"b", "o", "o", "l">>
Chars_number  == <<"n", "u", "m", "b", "e", "r">>
Chars_string  == <<"s", "t", "r", "i", "n", "g">>
Chars_list    == <<"l", "i", "s", "t">>
Chars_unknown == <<"u", "n", "k", "n", "o", "w", "n">>

\* list(range(a, b)) as VNum items
RECURSIVE RangeItems(_, _)
RangeItems(a, b) == IF a >= b THEN <<>> ELSE <<VNum(a)>> \o RangeItems(a + 1, b)

\* the built-ins whose bodies the model gives
BuiltinModelled(name, vals) ==
    \/ name \in {"len", "push", "append", "pop", "type", "print"}
    \/ name = "range" /\ Len(vals) \in {1, 2}

Raise(exc, h, o) == [ctl |-> CSig(exc, VNone), heap |-> h, out |-> o]
Give(v, h, o)    == [ctl |-> CVal(v), heap |-> h, out |-> o]

\* _len(obj)
Builtin_len(vals, h, o) ==
    IF Len(vals) # 1 THEN Raise("TypeError", h, o)
    ELSE IF vals[1].t = "list" THEN Give(VNum(Len(h[vals[1].ref])), h, o)
    ELSE IF vals[1].t = "str" THEN Give(VNum(Len(vals[1].s)), h, o)
    ELSE Raise("TypeError", h, o)

\* _push(lst, item) and _append(lst, item): lst.append(item); return lst
Builtin_push(vals, h, o) ==
    IF Len(vals) # 2 THEN Raise("TypeError", h, o)
    ELSE IF vals[1].t # "list" THEN Raise("AttributeError", h, o)
    ELSE Give(vals[1], [h EXCEPT ![vals[1].ref] = Append(@, vals[2])], o)

\* _pop(lst): lst.pop() if lst else None
Builtin_pop(vals, h, o) ==
    IF Len(vals) # 1 THEN Raise("TypeError", h, o)
    ELSE IF ~truthy(h, vals[1]) THEN Give(VNone, h, o)
    ELSE IF vals[1].t # "list" THEN Raise("AttributeError", h, o)
    ELSE LET l == h[vals[1].ref]
         IN Give(l[Len(l)], [h EXCEPT ![vals[1].ref] = SubSeq(l, 1, Len(l) - 1)], o)

\* _type(obj)
Builtin_type(vals, h, o) ==
    IF Len(vals) # 1 THEN Raise("TypeError", h, o)
    ELSE Give(VStr(CASE vals[1].t = "bool" -> Chars_bool
                     [] vals[1].t \in {"num", "float"} -> Chars_number
                     [] vals[1].t = "str" -> Chars_string
                     [] vals[1].t = "list" -> Chars_list
                     [] OTHER -> Chars_unknown), h, o)

\* _range(*args), for one and two arguments
Builtin_range(vals, h, o) ==
    IF \E j \in 1..Len(vals) : ~IsNumeric(vals[j]) THEN Raise("TypeError", h, o)
    ELSE LET items == IF Len(vals) = 1
                      THEN RangeItems(0, NumOf(vals[1]))
                      ELSE RangeItems(NumOf(vals[1]), NumOf(vals[2]))
         IN Give(VList(Len(h) + 1), Append(h, items), o)

\* lambda *vals: print(*vals)
Builtin_print(vals, h, o) ==
    Give(VNone, h, Append(o, [j \in 1..Len(vals) |-> Shown(h, vals[j])]))

ApplyBuiltin(name, vals, h, o) ==
    CASE name = "len" -> Builtin_len(vals, h, o)
      [] name \in {"push", "append"} -> Builtin_push(vals, h, o)
      [] name = "pop" -> Builtin_pop(vals, h, o)
      [] name = "type" -> Builtin_type(vals, h, o)
      [] name = "range" -> Builtin_range(vals, h, o)
      [] name = "print" -> Builtin_print(vals, h, o)

\* return fn(*args)
Builtin_invoke ==
    /\ status = "running"
    /\ ctl.m = "apply"
    /\ OnTop("Builtin")
    /\ BuiltinModelled(Top(k).fn.name, Top(k).vals)
    /\ LET r == ApplyBuiltin(Top(k).fn.name, Top(k).vals, heap, out)
       IN ctl' = r.ctl /\ heap' = r.heap /\ out' = r.out
    /\ k' = Pop(k)
    /\ UNCHANGED <<lx, ix, parser, prog, frames, status, err>>

-----------------------------------------------------------------------------
(* Exceptions leaving an activation that does not handle them *)

Handles(c, sig) ==
    \/ c.k = "WhileBody" /\ WhileHandles(sig)
    \/ c.k = "ForBody" /\ ForHandles(sig)
    \/ c.k = "CallBody" /\ sig = "ReturnSignal"
    \/ c.k = "CallTry" /\ sig = "NameError"

\* the activations that hold the only reference to an Environment
Owns(c) == c.k \in {"Scope", "WhileBody", "ForBody", "CallBody", "CallArgs"}

Unwind ==
    /\ status = "running"
    /\ ctl.m = "sig"
    /\ k # <<>>
    /\ ~Handles(Top(k), ctl.sig)
    /\ frames' = IF Owns(Top(k)) THEN Release(frames, Top(k).child) ELSE frames
    /\ k' = Pop(k)
    /\ UNCHANGED <<lx, ix, parser, prog, heap, ctl, out, status, err>>

NoError == [exc |-> "", info |-> VNone]

\* main: eval_program(ast) returned
Exit ==
    /\ status = "running"
    /\ ctl.m = "ok"
    /\ k = <<>>
    /\ status' = "done"
    /\ ctl' = CHalt
    /\ UNCHANGED <<lx, ix, parser, prog, frames, heap, k, out, err>>

\* main: an exception left eval_program; the interpreter dies with it
Abort ==
    /\ status = "running"
    /\ ctl.m = "sig"
    /\ k = <<>>
    /\ status' = "error"
    /\ err' = [exc |-> ctl.sig, info |-> ctl.v]
    /\ ctl' = CHalt
    /\ UNCHANGED <<lx, ix, parser, prog, frames, heap, k, out>>

-----------------------------------------------------------------------------
(* The programs run: ASTs as Parser.parse builds them *)

\* stmts inside d nested blocks `? true { ... }`
RECURSIVE Nest(_, _)
Nest(d, stmts) == IF d = 0 THEN stmts ELSE <<If(Bool(TRUE), Nest(d - 1, stmts))>>

Incr(n) == Assign(n, BinOp("+", Var(n), Num(1)))

Id(fam, kind, a, b, ops) == [fam |-> fam, kind |-> kind, a |-> a, b |-> b, ops |-> ops]

\* @f() { :> x }
Def_f_prints_x == FuncDef("f", <<>>, <<Print_(<<Var("x")>>)>>)

\* f is called where x is bound only in the caller's own frame: a block at
\* depth a, or the call frame of g(x) called at depth a
IsoIds ==
    {Id("iso", kind, d, 0, <<>>) : kind \in {"block", "func"}, d \in 0..MaxDepth}

IsoBody(id) ==
    IF id.kind = "block"
    THEN <<Def_f_prints_x>> \o Nest(id.a, <<Assign("x", Num(1)), Call("f", <<>>)>>)
    ELSE <<Def_f_prints_x, FuncDef("g", <<"x">>, <<Call("f", <<>>)>>)>>
         \o Nest(id.a, <<Call("g", <<Num(1)>>)>>)

\* $x is bound in a frame at depth a and assigned b blocks further in;
\* $y is bound nowhere
ScopeIds ==
    {Id("scope", kind, a, b, <<>>) : kind \in {"if", "for", "call"},
                                    a \in 0..1, b \in 0..MaxDepth}

ScopeInner == <<Assign("x", Num(2)), Assign("y", Num(5)), Print_(<<Var("x")>>)>>

ScopeBody(id) ==
    LET at == <<Assign("x", Num(1))>> \o Nest(id.b, ScopeInner)
              \o <<Print_(<<Var("x")>>)>>
    IN CASE id.kind = "if" -> Nest(id.a, at)
         [] id.kind = "for" ->
              Nest(id.a, <<ForLoop("j", List_(<<Num(1)>>), at)>>)
         [] id.kind = "call" ->
              <<FuncDef("g", <<>>, at)>> \o Nest(id.a, <<Call("g", <<>>)>>)

\* a Return inside a loop inside a function, under b nested Ifs, in the
\* first of a iterations
LoopRetIds ==
    {Id("loopret", kind, a, b, <<>>) : kind \in {"while", "for"},
                                      a \in 1..2, b \in 0..1}

LoopRetBody(id) ==
    LET ret == Nest(id.b, <<Return(Num(7))>>)
        loop == IF id.kind = "while"
                THEN <<Assign("i", Num(0)),
                       While(Compare("<", Var("i"), Num(id.a)),
                             <<Incr("i")>> \o ret \o <<Incr("n")>>)>>
                ELSE <<ForLoop("i", List_([j \in 1..id.a |-> Num(j)]),
                               ret \o <<Incr("n")>>)>>
    IN <<Assign("n", Num(0)),
         FuncDef("f", <<>>, loop \o <<Return(Num(9))>>),
         Assign("r", Call("f", <<>>))>>

\* a built-in called in the root frame, in a block at depth a, in a loop body
\* or in a function body
BuiltinCall(b) ==
    CASE b = 1 -> Call("len", <<List_(<<Num(1), Num(2)>>)>>)
      [] b = 2 -> Call("push", <<List_(<<>>), Num(1)>>)
      [] b = 3 -> Call("range", <<Num(2)>>)

BuiltinIds ==
    {Id("builtin", "if", a, b, <<>>) : a \in 0..MaxDepth, b \in 1..3} \cup
    {Id("builtin", kind, 0, b, <<>>) : kind \in {"while", "for", "call"}, b \in 1..3}

BuiltinBody(id) ==
    LET use == <<Assign("r", BuiltinCall(id.b))>>
    IN CASE id.kind = "if" -> Nest(id.a, use)
         [] id.kind = "while" ->
              <<Assign("i", Num(0)),
                While(Compare("<", Var("i"), Num(1)), <<Incr("i")>> \o use)>>
         [] id.kind = "for" -> <<ForLoop("j", List_(<<Num(1)>>), use)>>
         [] id.kind = "call" ->
              <<FuncDef("g", <<>>, use), Call("g", <<>>)>>

\* a user function named like the built-in len
PrecIds == {Id("prec", "len", a, 0, <<>>) : a \in 1..6}

PrecBody(id) ==
    LET arg == List_(<<Num(1), Num(2)>>)
    IN CASE id.a = 1 ->   \* the body returns
              <<FuncDef("len", <<"a">>, <<Return(Num(0))>>),
                Assign("r", Call("len", <<arg>>))>>
         [] id.a = 2 ->   \* the body ends without a Return
              <<FuncDef("len", <<"a">>, <<>>),
                Assign("r", Call("len", <<arg>>))>>
         [] id.a = 3 ->   \* the body reads an undefined name
              <<FuncDef("len", <<"a">>, <<Return(Var("y"))>>),
                Assign("r", Call("len", <<arg>>))>>
         [] id.a = 4 ->   \* an argument reads an undefined name
              <<FuncDef("len", <<"a">>, <<Return(Num(0))>>),
                Assign("r", Call("len", <<Var("y")>>))>>
         [] id.a = 5 ->   \* the body calls a function that reads an undefined name
              <<FuncDef("h", <<>>, <<Return(Var("y"))>>),
                FuncDef("len", <<"a">>, <<Return(Call("h", <<>>))>>),
                Assign("r", Call("len", <<arg>>))>>
         [] id.a = 6 ->   \* the wrong number of arguments
              <<FuncDef("len", <<"a">>, <<Return(Num(0))>>),
                Assign("r", Call("len", <<arg, arg>>))>>

\* a Break under a nested Ifs: in the inner of two loops, outside any loop,
\* or in a function called from a loop
BreakIds ==
    {Id("break", kind, a, 0, <<>>) :
        kind \in {"while_in_for", "for_in_while", "stray", "stray_call", "call_in_loop"},
        a \in 0..MaxDepth}

BreakBody(id) ==
    LET brk == Nest(id.a, <<Break>>) \o <<Incr("miss")>>
        two == List_(<<Num(1), Num(2)>>)
    IN <<Assign("c", Num(0)), Assign("miss", Num(0))>> \o
       CASE id.kind = "while_in_for" ->
              <<ForLoop("i", two, <<While(Bool(TRUE), brk), Incr("c")>>),
                Assign("after", Num(1))>>
         [] id.kind = "for_in_while" ->
              <<Assign("i", Num(0)),
                While(Compare("<", Var("i"), Num(2)),
                      <<Incr("i"), ForLoop("j", two, brk), Incr("c")>>),
                Assign("after", Num(1))>>
         [] id.kind = "stray" ->
              Nest(id.a, <<Break>>) \o <<Assign("after", Num(1))>>
         [] id.kind = "stray_call" ->
              <<FuncDef("f", <<>>, Nest(id.a, <<Break>>)), Call("f", <<>>),
                Assign("after", Num(1))>>
         [] id.kind = "call_in_loop" ->
              <<FuncDef("f", <<>>, Nest(id.a, <<Break>>)),
                While(Bool(TRUE), <<Call("f", <<>>), Incr("miss")>>),
                Assign("after", Num(1))>>

\* $r <- g(L) op f(): g counts its calls in $d and returns L, f counts its
\* calls in $c and returns R
Operands ==
    <<Bool(TRUE), Bool(FALSE), Num(0), Num(2), List_(<<>>), List_(<<Num(0)>>),
      Str(<<>>), Str(<<"a">>)>>

LogicalIds ==
    {Id("logical", op, a, b, <<>>) : op \in {"and", "or"},
                                    a \in 1..Len(Operands), b \in 1..Len(Operands)}

LogicalBody(id) ==
    <<Assign("c", Num(0)), Assign("d", Num(0)),
      FuncDef("f", <<>>, <<Incr("c"), Return(Operands[id.b])>>),
      FuncDef("g", <<"v">>, <<Incr("d"), Return(Var("v"))>>),
      Assign("r", LogicalOp(id.kind, Call("g", <<Operands[id.a]>>), Call("f", <<>>)))>>

\* $a <- [0]; $b <- $a; then up to MaxOps of push / append / pop through
\* either name
ListOps ==
    <<[fn |-> "push", via |-> "a"], [fn |-> "push", via |-> "b"],
      [fn |-> "append", via |-> "a"], [fn |-> "append", via |-> "b"],
      [fn |-> "pop", via |-> "a"], [fn |-> "pop", via |-> "b"]>>

RECURSIVE OpSeqs(_)
OpSeqs(n) ==
    IF n = 0 THEN {<<>>}
    ELSE OpSeqs(n - 1) \cup
         {Append(s, o) : s \in {t \in OpSeqs(n - 1) : Len(t) = n - 1},
                         o \in 1..Len(ListOps)}

AliasIds == {Id("alias", "list", 0, 0, ops) : ops \in OpSeqs(MaxOps)}

ListOpCall(o, j) ==
    IF ListOps[o].fn = "pop"
    THEN Call("pop", <<Var(ListOps[o].via)>>)
    ELSE Call(ListOps[o].fn, <<Var(ListOps[o].via), Num(j)>>)

AliasBody(id) ==
    <<Assign("a", List_(<<Num(0)>>)), Assign("b", Var("a"))>> \o
    [j \in 1..Len(id.ops) |-> ListOpCall(id.ops[j], j)]

\* the end-to-end scenarios, and the statements the families above leave out
MiscIds == {Id("misc", "scenario", a, 0, <<>>) : a \in 1..8}

MiscBody(id) ==
    CASE id.a = 1 ->
           <<Print_(<<BinOp("+", Num(2), BinOp("*", Num(3), Num(4)))>>)>>
      [] id.a = 2 ->
           <<Assign("x", Num(10)), Assign("y", BinOp("+", Var("x"), Num(5))),
             Print_(<<Var("y")>>)>>
      [] id.a = 3 ->
           <<FuncDef("add", <<"a", "b">>, <<Return(BinOp("+", Var("a"), Var("b")))>>),
             Print_(<<Call("add", <<Num(3), Num(4)>>)>>)>>
      [] id.a = 4 ->
           <<Assign("s", Num(0)),
             ForLoop("i", Call("range", <<Num(1), Num(4)>>),
                     <<Assign("s", BinOp("+", Var("s"), Var("i")))>>),
             Print_(<<Var("s")>>)>>
      [] id.a = 5 ->
           <<Assign("i", Num(0)),
             While(Bool(TRUE),
                   <<If(Compare(">=", Var("i"), Num(3)), <<Break>>), Incr("i")>>),
             Print_(<<Var("i")>>)>>
      [] id.a = 6 ->
           <<Assign("a", List_(<<Num(1), Num(2)>>)), Assign("b", Var("a")),
             Call("push", <<Var("a"), Num(3)>>),
             Print_(<<Call("len", <<Var("b")>>), Var("b")>>)>>
      [] id.a = 7 ->
           <<Assign("s", Str(<<"a", "b">>)), Assign("l", List_(<<Num(4), Num(5)>>)),
             Assign("n", Num(0)),
             ForLoop("i", Var("l"),
                     <<IfElse(LogicalNot(Compare("==", Var("i"), Num(4))),
                              <<Continue>>, <<Incr("n")>>),
                       Incr("n")>>),
             While(Compare("<", Var("n"), Num(4)),
                   <<Incr("n"), Continue>>),
             Print_(<<Index(Var("s"), Num(1)), Index(Var("l"), unary(Num(1))),
                      Call("type", <<Var("n")>>), Call("pop", <<Var("l")>>)>>),
             Call("print", <<Var("n"), Var("l")>>)>>
      [] id.a = 8 ->
           <<ForLoop("i", Num(3), <<>>)>>

ProgramIds ==
    IsoIds \cup ScopeIds \cup LoopRetIds \cup BuiltinIds \cup PrecIds \cup
    BreakIds \cup LogicalIds \cup AliasIds \cup MiscIds

Body(id) ==
    CASE id.fam = "iso"     -> IsoBody(id)
      [] id.fam = "scope"   -> ScopeBody(id)
      [] id.fam = "loopret" -> LoopRetBody(id)
      [] id.fam = "builtin" -> BuiltinBody(id)
      [] id.fam = "prec"    -> PrecBody(id)
      [] id.fam = "break"   -> BreakBody(id)
      [] id.fam = "logical" -> LogicalBody(id)
      [] id.fam = "alias"   -> AliasBody(id)
      [] id.fam = "misc"    -> MiscBody(id)

-----------------------------------------------------------------------------
(* The evaluator *)

\* main: eval_program(parser.parse()): run_block(ast.body, env) in the root
Init ==
    /\ \E id \in ProgramIds : prog = [id |-> id, body |-> Body(id)]
    /\ frames = <<RootEnv>>
    /\ heap = <<>>
    /\ LET r == RunBlock(prog.body, 1, <<>>)
       IN ctl = r.ctl /\ k = r.k
    /\ out = <<>>
    /\ status = "running"
    /\ err = NoError
    /\ lx = <<>>
    /\ ix = <<>>
    /\ parser = <<>>

Next ==
    \/ eval_stmt_Print \/ Print_arg
    \/ eval_stmt_Assign \/ Assign_set
    \/ eval_stmt_If \/ If_cond \/ If_done
    \/ run_block_next
    \/ eval_stmt_While \/ While_cond \/ While_body_done \/ While_except
    \/ eval_stmt_ForLoop \/ ForLoop_iter \/ ForLoop_body_done \/ ForLoop_except
    \/ eval_stmt_FuncDef
    \/ eval_stmt_Return \/ Return_raise
    \/ eval_stmt_Break \/ eval_stmt_Continue
    \/ eval_stmt_Expr \/ ExprStmt_done
    \/ eval_expr_Num \/ eval_expr_Str \/ eval_expr_Bool
    \/ eval_expr_List \/ List_elem
    \/ eval_expr_Var
    \/ eval_expr_BinOp \/ eval_expr_Compare \/ Bin_left
    \/ BinOp_right \/ Compare_right
    \/ eval_expr_LogicalOp \/ Logical_not \/ Logical_left \/ Logical_right
    \/ eval_expr_Index \/ Index_obj \/ Index_idx
    \/ eval_expr_Call \/ Call_arg \/ Call_body_done \/ Call_body_return
    \/ Call_return \/ Call_except
    \/ Builtin_arg \/ Builtin_invoke
    \/ Unwind \/ Exit \/ Abort

Spec == Init /\ [][Next]_vars

-----------------------------------------------------------------------------
(* Properties of the evaluator *)

Root == 1

RootHas(n) == Has(frames[Root].vars, n)
RootVar(n) == frames[Root].vars[n]

\* the frames created for user-function calls that are live
CallFrames ==
    {k[j].child : j \in {i \in 1..Len(k) : k[i].k \in {"CallArgs", "CallBody"}}}

\* C1: function isolation.  The frame created for a user-function call has
\* the root frame as its parent, whatever frame the call is made from; so
\* when x is bound only in a non-root frame of the caller, `:> x` in the
\* callee's body never prints.
C1_FunctionIsolation ==
    /\ \A c \in CallFrames : frames[c].parent = Root
    /\ (prog.id.fam = "iso" /\ ~(prog.id.kind = "block" /\ prog.id.a = 0))
          => out = <<>>

\* the nearest frame on the chain from e that binds name, 0 when none does
RECURSIVE Binder(_, _, _)
Binder(fs, e, name) ==
    IF Has(fs[e].vars, name) THEN e
    ELSE IF fs[e].parent = 0 THEN 0
    ELSE Binder(fs, fs[e].parent, name)

\* C2: assignment scoping law.  An Assign of x updates the nearest frame on
\* the chain that binds x, at any distance, and creates no binding in the
\* innermost frame; only when no frame binds x is the binding created, in
\* the innermost frame.
C2_AssignmentScoping ==
    [][ValAt("Assign") =>
         LET c == Top(k)
             b == Binder(frames, c.env, c.name)
             target == IF b = 0 THEN c.env ELSE b
         IN frames' = [frames EXCEPT ![target].vars = Put(@, c.name, ctl.v)]]_vars

\* C3: a Return executed in the body of a While passes through the loop: the
\* loop is left at once with the signal still raised (its condition is not
\* evaluated again), and the enclosing call yields the returned value.
C3_WhileReturnPassesThrough ==
    [][/\ (SigAt("WhileBody") /\ ctl.sig = "ReturnSignal")
             => (ctl' = ctl /\ k' = Pop(k))
       /\ (prog.id.fam = "loopret" /\ status' = "done")
             => (RootHas("r")' /\ RootVar("r")' = VNum(7))]_vars

\* C4: a Call of a name with no user function visible, and a built-in
\* callable bound under it in the root frame, does not fail with NameError,
\* in whatever frame it is evaluated.
C4_BuiltinDispatchEveryFrame ==
    ~(/\ status = "running"
      /\ ctl.m = "sig"
      /\ ctl.sig = "NameError"
      /\ ctl.v.what = "function"
      /\ RootHas(ctl.v.name)
      /\ callable(RootVar(ctl.v.name)))

\* C5: call dispatch precedence.  A built-in is never invoked for a Call
\* whose name has a user-defined function visible from the calling frame.
C5_UserFunctionWins ==
    ~(/\ status = "running"
      /\ ctl.m = "apply"
      /\ OnTop("Builtin")
      /\ FuncVisible(frames, Top(k).env, Top(k).node.name))

\* C6: control-flow law.  A Break reaching a While or ForLoop body ends that
\* loop alone and execution resumes after it; a Break with no enclosing loop
\* aborts the program with ControlFlowError.
C6_BreakLaw ==
    [][/\ ((SigAt("WhileBody") \/ SigAt("ForBody")) /\ ctl.sig = "BreakSignal")
             => (ctl' = COk /\ k' = Pop(k))
       /\ (status = "running" /\ ctl.m = "sig" /\ ctl.sig = "BreakSignal" /\ k = <<>>)
             => (status' = "error" /\ err'.exc = "ControlFlowError")]_vars

\* bool() of a literal operand, read off the AST
LiteralTruth(node) ==
    CASE node.type = "Bool"  -> node.value
      [] node.type = "Num"   -> node.value # 0
      [] node.type = "Str"   -> node.value # <<>>
      [] node.type = "List_" -> node.elements # <<>>

ShortCircuits(op, l) == IF op = "and" THEN ~LiteralTruth(l) ELSE LiteralTruth(l)

\* C7: short-circuit law.  In `$r <- g(L) op f()` the left operand is
\* evaluated exactly once, the right operand is not evaluated when L is falsy
\* (and) or truthy (or), and $r is the boolean of the operation, not an
\* operand.
C7_ShortCircuit ==
    (prog.id.fam = "logical" /\ status # "running") =>
        LET l == Operands[prog.id.a]
            r == Operands[prog.id.b]
            op == prog.id.kind
        IN /\ status = "done"
           /\ RootVar("d") = VNum(1)
           /\ RootVar("c") = VNum(IF ShortCircuits(op, l) THEN 0 ELSE 1)
           /\ RootVar("r") = VBool(IF op = "and"
                                   THEN LiteralTruth(l) /\ LiteralTruth(r)
                                   ELSE LiteralTruth(l) \/ LiteralTruth(r))

\* a run of `$r <- g(L) and f()` with L falsy, and of `... or f()` with L
\* truthy, has ended
C7_Witness ==
    /\ prog.id.fam = "logical"
    /\ status = "done"
    /\ ShortCircuits(prog.id.kind, Operands[prog.id.a])
    /\ prog.id.kind = "and"
    /\ LiteralTruth(Operands[prog.id.b])

\* C8: list aliasing law.  After `$b <- $a` with $a a list, $a and $b are the
\* same list: whatever push / append / pop calls are made through either
\* name, both have the same elements.
C8_ListAliasing ==
    (prog.id.fam = "alias" /\ RootHas("a") /\ RootHas("b")) =>
        /\ RootVar("a").t = "list"
        /\ RootVar("b") = RootVar("a")
        /\ heap[RootVar("b").ref] = heap[RootVar("a").ref]

\* calls have run through both names, and the list has grown
C8_Witness ==
    /\ prog.id.fam = "alias"
    /\ status = "done"
    /\ \E i, j \in 1..Len(prog.id.ops) :
          /\ ListOps[prog.id.ops[i]].via = "a"
          /\ ListOps[prog.id.ops[j]].via = "b"
    /\ Len(heap[RootVar("b").ref]) > 1

-----------------------------------------------------------------------------
(* Lexer *)

Digit == {"0", "1", "2", "3", "4", "5", "6", "7", "8", "9"}

Letter == {"a", "b", "c", "d", "e", "f", "g", "h", "i", "j", "k", "l", "m",
           "n", "o", "p", "q", "r", "s", "t", "u", "v", "w", "x", "y", "z",
           "A", "B", "C", "D", "E", "F", "G", "H", "I", "J", "K", "L", "M",
           "N", "O", "P", "Q", "R", "S", "T", "U", "V", "W", "X", "Y", "Z", "_"}

\* \w
Word == Letter \cup Digit

\* the end (exclusive) of the longest run of characters of S from p
RECURSIVE RunEnd(_, _, _)
RunEnd(src, p, S) ==
    IF p <= Len(src) /\ src[p] \in S THEN RunEnd(src, p + 1, S) ELSE p

\* each pattern of TOKEN_SPEC tried at position p: the end (exclusive) of its
\* match, 0 when it does not match there

Literal(src, p, lit) ==
    IF p + Len(lit) - 1 <= Len(src) /\ SubSeq(src, p, p + Len(lit) - 1) = lit
    THEN p + Len(lit) ELSE 0

\* \bword\b
Keyword(src, p, lit) ==
    LET e == Literal(src, p, lit)
    IN IF /\ e # 0
          /\ (p = 1 \/ src[p - 1] \notin Word)
          /\ (e > Len(src) \/ src[e] \notin Word)
       THEN e ELSE 0

\* \d+(\.\d+)?
Match_NUMBER(src, p) ==
    IF src[p] \notin Digit THEN 0
    ELSE LET e == RunEnd(src, p, Digit)
         IN IF e + 1 <= Len(src) /\ src[e] = "." /\ src[e + 1] \in Digit
            THEN RunEnd(src, e + 1, Digit) ELSE e

\* "([^"\\]|\\.)*" from the character after the opening quote
RECURSIVE StringEnd(_, _)
StringEnd(src, i) ==
    IF i > Len(src) THEN 0
    ELSE IF src[i] = "\"" THEN i + 1
    ELSE IF src[i] = "\\"
    THEN IF i + 1 <= Len(src) /\ src[i + 1] # "\n" THEN StringEnd(src, i + 2) ELSE 0
    ELSE StringEnd(src, i + 1)

Match_STRING(src, p) == IF src[p] = "\"" THEN StringEnd(src, p + 1) ELSE 0

\* [A-Za-z_][A-Za-z0-9_]*
Match_IDENT(src, p) == IF src[p] \in Letter THEN RunEnd(src, p + 1, Word) ELSE 0

\* [+\-*\/\^%]
Match_OP(src, p) == IF src[p] \in {"+", "-", "*", "/", "^", "%"} THEN p + 1 ELSE 0

\* the first alternative of `alts` that matches at p
RECURSIVE FirstLiteral(_, _, _)
FirstLiteral(src, p, alts) ==
    IF alts = <<>> THEN 0
    ELSE IF Literal(src, p, alts[1]) # 0 THEN Literal(src, p, alts[1])
    ELSE FirstLiteral(src, p, Tail(alts))

\* (==|!=|<=|>=|<|>)
Match_CMP(src, p) ==
    FirstLiteral(src, p, << <<"=", "=">>, <<"!", "=">>, <<"<", "=">>,
                           <<">", "=">>, <<"<">>, <<">">> >>)

\* [ \t\r]+
Match_SKIP(src, p) ==
    IF src[p] \in {" ", "\t", "\r"} THEN RunEnd(src, p, {" ", "\t", "\r"}) ELSE 0

\* ;;[^\n]*
RECURSIVE LineEnd(_, _)
LineEnd(src, p) == IF p <= Len(src) /\ src[p] # "\n" THEN LineEnd(src, p + 1) ELSE p

Match_COMMENT(src, p) ==
    IF Literal(src, p, <<";", ";">>) # 0 THEN LineEnd(src, p + 2) ELSE 0

\* TOKEN_SPEC, in its order
TOKEN_SPEC(src, p) ==
    << [type |-> "NUMBER",   end |-> Match_NUMBER(src, p)],
       [type |-> "STRING",   end |-> Match_STRING(src, p)],
       [type |-> "ARROW",    end |-> Literal(src, p, <<"<", "-">>)],
       [type |-> "PRINT",    end |-> Literal(src, p, <<":", ">">>)],
       [type |-> "FORLOOP",  end |-> Literal(src, p, <<"@", ">">>)],
       [type |-> "IF",       end |-> Literal(src, p, <<"?">>)],
       [type |-> "WHILE",    end |-> Literal(src, p, <<"~">>)],
       [type |-> "FUNC",     end |-> Literal(src, p, <<"@">>)],
       [type |-> "RETURN",   end |-> Literal(src, p, <<"!", ">">>)],
       [type |-> "TRUE",     end |-> Keyword(src, p, <<"t", "r", "u", "e">>)],
       [type |-> "FALSE",    end |-> Keyword(src, p, <<"f", "a", "l", "s", "e">>)],
       [type |-> "AND",      end |-> Keyword(src, p, <<"a", "n", "d">>)],
       [type |-> "OR",       end |-> Keyword(src, p, <<"o", "r">>)],
       [type |-> "NOT",      end |-> Keyword(src, p, <<"n", "o", "t">>)],
       [type |-> "IN",       end |-> Keyword(src, p, <<"i", "n">>)],
       [type |-> "BREAK",    end |-> Keyword(src, p, <<"b", "r", "e", "a", "k">>)],
       [type |-> "CONTINUE", end |-> Keyword(src, p, <<"c", "o", "n", "t", "i", "n", "u", "e">>)],
       [type |-> "ELSE",     end |-> Keyword(src, p, <<"e", "l", "s", "e">>)],
       [type |-> "IDENT",    end |-> Match_IDENT(src, p)],
       [type |-> "DOLLAR",   end |-> Literal(src, p, <<"$">>)],
       [type |-> "OP",       end |-> Match_OP(src, p)],
       [type |-> "CMP",      end |-> Match_CMP(src, p)],
       [type |-> "LPAREN",   end |-> Literal(src, p, <<"(">>)],
       [type |-> "RPAREN",   end |-> Literal(src, p, <<")">>)],
       [type |-> "LBRACE",   end |-> Literal(src, p, <<"{">>)],
       [type |-> "RBRACE",   end |-> Literal(src, p, <<"}">>)],
       [type |-> "LBRACKET", end |-> Literal(src, p, <<"[">>)],
       [type |-> "RBRACKET", end |-> Literal(src, p, <<"]">>)],
       [type |-> "COMMA",    end |-> Literal(src, p, <<",">>)],
       [type |-> "NEWLINE",  end |-> Literal(src, p, <<"\n">>)],
       [type |-> "SKIP",     end |-> Match_SKIP(src, p)],
       [type |-> "COMMENT",  end |-> Match_COMMENT(src, p)] >>

NoMatch == [type |-> "", start |-> 0, end |-> 0]

\* MASTER_RE tried at position p: the first alternative that matches
RECURSIVE FirstMatch(_, _, _)
FirstMatch(alts, j, p) ==
    IF j > Len(alts) THEN NoMatch
    ELSE IF alts[j].end # 0 THEN [type |-> alts[j].type, start |-> p, end |-> alts[j].end]
    ELSE FirstMatch(alts, j + 1, p)

MASTER_RE(src, p) == FirstMatch(TOKEN_SPEC(src, p), 1, p)

\* the next match MASTER_RE.finditer yields, scanning from p: the match at the
\* first position at or after p where the pattern matches
RECURSIVE finditer(_, _)
finditer(src, p) ==
    IF p > Len(src) THEN NoMatch
    ELSE IF MASTER_RE(src, p) # NoMatch THEN MASTER_RE(src, p)
    ELSE finditer(src, p + 1)

\* Token(kind, val, m.start()); m.start() counts from 0
Token(type, value, pos) == [type |-> type, value |-> value, pos |-> pos]

\* the characters of the sources lexed
Alphabet == {"1", ".", ":", ">", "!", "=", "#", "\"", " ", "o", "r"}

RECURSIVE Sources(_)
Sources(n) ==
    IF n = 0 THEN {<<>>}
    ELSE Sources(n - 1) \cup
         {Append(s, c) : s \in {t \in Sources(n - 1) : Len(t) = n - 1}, c \in Alphabet}

IdleEval ==
    /\ prog = <<>> /\ frames = <<>> /\ heap = <<>> /\ ctl = CHalt /\ k = <<>>
    /\ out = <<>> /\ status = "idle" /\ err = NoError

\* lex(source) is entered: tokens = []
InitLex ==
    /\ \E s \in Sources(MaxSrcLen) :
          lx = [src |-> s, pos |-> 1, tokens |-> <<>>, status |-> "lexing"]
    /\ IdleEval
    /\ ix = <<>>
    /\ parser = <<>>

\* one turn of `for m in MASTER_RE.finditer(source)`
lex_match ==
    /\ lx # <<>>
    /\ lx.status = "lexing"
    /\ LET m == finditer(lx.src, lx.pos)
       IN /\ m # NoMatch
          /\ lx' = [lx EXCEPT
                      !.pos = m.end,
                      !.tokens = IF m.type \in {"SKIP", "COMMENT"} THEN @
                                 ELSE Append(@, Token(m.type,
                                                      SubSeq(lx.src, m.start, m.end - 1),
                                                      m.start - 1))]
    /\ UNCHANGED evalVars
    /\ UNCHANGED <<ix, parser>>

\* the iterator is exhausted: the EOF token is appended, the tokens returned
lex_return ==
    /\ lx # <<>>
    /\ lx.status = "lexing"
    /\ finditer(lx.src, lx.pos) = NoMatch
    /\ lx' = [lx EXCEPT !.pos = Len(lx.src) + 1,
                        !.tokens = Append(@, Token("EOF", <<>>, Len(lx.src))),
                        !.status = "returned"]
    /\ UNCHANGED evalVars
    /\ UNCHANGED <<ix, parser>>

NextLex == lex_match \/ lex_return

SpecLex == InitLex /\ [][NextLex]_vars

\* a character of the source that no match of the scan covers
Unmatched(src, p) == p <= Len(src) /\ MASTER_RE(src, p) = NoMatch

\* C9: the lexer fails with LexError at the first position where no pattern
\* matches: from such a position the scan does not go on, no token list is
\* returned, and no character is dropped from the token stream.
C9_LexErrorOnUnmatched ==
    [][(lx.status = "lexing" /\ Unmatched(lx.src, lx.pos))
          => (lx'.status = "LexError" /\ lx'.tokens = lx.tokens)]_vars

-----------------------------------------------------------------------------
(* Index: `$name[i]` with i a NUMBER literal, or its unary minus *)

\* the list [0, 1, ..] and the string "abc.." of length n
ListOfLen(n) == [j \in 1..n |-> VNum(j - 1)]
StrOfLen(n)  == SubSeq(<<"a", "b", "c", "d", "e", "f", "g", "h">>, 1, n)

\* Parser.primary / Parser.unary: the literal in halves, negated or not
InitIndex ==
    /\ \E kind \in {"list", "str"}, n \in 0..MaxLen,
          lit2 \in 0..(2 * MaxLen + 2), neg \in BOOLEAN :
          ix = [kind |-> kind,
                seq |-> IF kind = "list" THEN ListOfLen(n) ELSE StrOfLen(n),
                lit2 |-> lit2, neg |-> neg,
                pc |-> "idx", idx2 |-> 0, ok |-> FALSE, pos |-> 0]
    /\ IdleEval
    /\ lx = <<>>
    /\ parser = <<>>

\* idx = eval_expr(node.idx, env): a Num, or BinOp('*', Num(-1), Num)
Index_eval_idx ==
    /\ ix # <<>>
    /\ ix.pc = "idx"
    /\ ix' = [ix EXCEPT !.idx2 = IF ix.neg THEN (-1) * ix.lit2 ELSE ix.lit2,
                        !.pc = "subscript"]
    /\ UNCHANGED evalVars
    /\ UNCHANGED <<lx, parser>>

\* return obj[int(idx)]: the item at pos, or IndexError
Index_subscript ==
    /\ ix # <<>>
    /\ ix.pc = "subscript"
    /\ LET s == Subscript(ix.seq, ix.idx2)
       IN ix' = [ix EXCEPT !.ok = s.ok, !.pos = s.pos, !.pc = "done"]
    /\ UNCHANGED evalVars
    /\ UNCHANGED <<lx, parser>>

NextIndex == Index_eval_idx \/ Index_subscript

SpecIndex == InitIndex /\ [][NextIndex]_vars

Trunc(x2) == IF x2 >= 0 THEN x2 \div 2 ELSE -((-x2) \div 2)

-----------------------------------------------------------------------------
(* Parser: recursive descent over the tokens of lex(source) *)

\* lex(source) as a function: the tokens of every match that is not SKIP or
\* COMMENT, then EOF
RECURSIVE lex_from(_, _)
lex_from(src, p) ==
    LET m == finditer(src, p)
    IN IF m = NoMatch THEN <<Token("EOF", <<>>, Len(src))>>
       ELSE (IF m.type \in {"SKIP", "COMMENT"} THEN <<>>
             ELSE <<Token(m.type, SubSeq(src, m.start, m.end - 1), m.start - 1)>>)
            \o lex_from(src, m.end)

lex(src) == lex_from(src, 1)

\* ord() of the characters the STRING lexemes of the model are written in
Ord ==
    [c \in {"a", "n", "x", "1", "4", "\\"} |->
        CASE c = "a" -> 97 [] c = "n" -> 110 [] c = "x" -> 120
          [] c = "1" -> 49 [] c = "4" -> 52 [] c = "\\" -> 92]

\* the one-character escapes of the unicode_escape codec
SimpleEscape ==
    [c \in {"\\", "'", "\"", "a", "b", "f", "n", "r", "t", "v"} |->
        CASE c = "\\" -> 92 [] c = "'" -> 39 [] c = "\"" -> 34 [] c = "a" -> 7
          [] c = "b" -> 8 [] c = "f" -> 12 [] c = "n" -> 10 [] c = "r" -> 13
          [] c = "t" -> 9 [] c = "v" -> 11]

OctDigit == {"0", "1", "2", "3", "4", "5", "6", "7"}

HexDigit == Digit \cup {"a", "b", "c", "d", "e", "f", "A", "B", "C", "D", "E", "F"}

HexVal(c) ==
    CASE c = "0" -> 0 [] c = "1" -> 1 [] c = "2" -> 2 [] c = "3" -> 3 [] c = "4" -> 4
      [] c = "5" -> 5 [] c = "6" -> 6 [] c = "7" -> 7 [] c = "8" -> 8 [] c = "9" -> 9
      [] c \in {"a", "A"} -> 10 [] c \in {"b", "B"} -> 11 [] c \in {"c", "C"} -> 12
      [] c \in {"d", "D"} -> 13 [] c \in {"e", "E"} -> 14 [] c \in {"f", "F"} -> 15

Decoded(v, rest) == IF rest.ok THEN [ok |-> TRUE, s |-> <<v>> \o rest.s] ELSE rest

UnicodeDecodeError == [ok |-> FALSE, s |-> <<>>]

\* bytes(raw[1:-1], 'utf-8').decode('unicode_escape') from character i of the
\* body: the code points of the decoded string, or UnicodeDecodeError. The body
\* is in the characters of Ord.
RECURSIVE unicode_escape(_, _)
unicode_escape(body, i) ==
    IF i > Len(body) THEN [ok |-> TRUE, s |-> <<>>]
    ELSE IF body[i] # "\\" THEN Decoded(Ord[body[i]], unicode_escape(body, i + 1))
    ELSE IF i = Len(body) THEN UnicodeDecodeError
    ELSE LET c == body[i + 1]
         IN IF c \in OctDigit
            THEN LET e == RunEnd(SubSeq(body, 1, IF i + 3 <= Len(body) THEN i + 3 ELSE Len(body)),
                                 i + 1, OctDigit)
                     d(j) == IF j < e THEN HexVal(body[j]) ELSE 0
                     v == IF e = i + 2 THEN d(i + 1)
                          ELSE IF e = i + 3 THEN 8 * d(i + 1) + d(i + 2)
                          ELSE 64 * d(i + 1) + 8 * d(i + 2) + d(i + 3)
                 IN Decoded(v, unicode_escape(body, e))
            ELSE IF c = "x"
            THEN IF /\ i + 3 <= Len(body)
                    /\ body[i + 2] \in HexDigit
                    /\ body[i + 3] \in HexDigit
                 THEN Decoded(16 * HexVal(body[i + 2]) + HexVal(body[i + 3]),
                              unicode_escape(body, i + 4))
                 ELSE UnicodeDecodeError
            ELSE IF c \in DOMAIN SimpleEscape
            THEN Decoded(SimpleEscape[c], unicode_escape(body, i + 2))
            ELSE Decoded(92, unicode_escape(body, i + 1))

\* the lexemes the sources are written in, by name
LexemeTable ==
    <<
       [name |-> "NUMBER", text |-> <<"1">>],
       [name |-> "STR_plain", text |-> <<"\"", "a", "\"">>],
       [name |-> "STR_newline", text |-> <<"\"", "\\", "n", "\"">>],
       [name |-> "STR_hex", text |-> <<"\"", "\\", "x", "4", "1", "\"">>],
       [name |-> "STR_backslash", text |-> <<"\"", "\\", "\\", "x", "\"">>],
       [name |-> "STR_truncated", text |-> <<"\"", "\\", "x", "4", "\"">>],
       [name |-> "ARROW", text |-> <<"<", "-">>],
       [name |-> "PRINT", text |-> <<":", ">">>],
       [name |-> "FORLOOP", text |-> <<"@", ">">>],
       [name |-> "IF", text |-> <<"?">>],
       [name |-> "WHILE", text |-> <<"~">>],
       [name |-> "FUNC", text |-> <<"@">>],
       [name |-> "RETURN", text |-> <<"!", ">">>],
       [name |-> "TRUE", text |-> <<"t", "r", "u", "e">>],
       [name |-> "FALSE", text |-> <<"f", "a", "l", "s", "e">>],
       [name |-> "AND", text |-> <<"a", "n", "d">>],
       [name |-> "OR", text |-> <<"o", "r">>],
       [name |-> "NOT", text |-> <<"n", "o", "t">>],
       [name |-> "IN", text |-> <<"i", "n">>],
       [name |-> "BREAK", text |-> <<"b", "r", "e", "a", "k">>],
       [name |-> "CONTINUE", text |-> <<"c", "o", "n", "t", "i", "n", "u", "e">>],
       [name |-> "ELSE", text |-> <<"e", "l", "s", "e">>],
       [name |-> "IDENT", text |-> <<"f">>],
       [name |-> "DOLLAR", text |-> <<"$">>],
       [name |-> "PLUS", text |-> <<"+">>],
       [name |-> "MINUS", text |-> <<"-">>],
       [name |-> "TIMES", text |-> <<"*">>],
       [name |-> "POWER", text |-> <<"^">>],
       [name |-> "CMP", text |-> <<"<", "=">>],
       [name |-> "LPAREN", text |-> <<"(">>],
       [name |-> "RPAREN", text |-> <<")">>],
       [name |-> "LBRACE", text |-> <<"{">>],
       [name |-> "RBRACE", text |-> <<"}">>],
       [name |-> "LBRACKET", text |-> <<"[">>],
       [name |-> "RBRACKET", text |-> <<"]">>],
       [name |-> "COMMA", text |-> <<",">>],
       [name |-> "NEWLINE", text |-> <<"\n">>]
    >>

Lexemes ==
    [w \in {LexemeTable[j].name : j \in DOMAIN LexemeTable} |->
        LexemeTable[CHOOSE j \in DOMAIN LexemeTable : LexemeTable[j].name = w].text]

\* the source text of a sequence of lexeme names, one blank between lexemes
RECURSIVE Source(_)
Source(words) ==
    IF words = <<>> THEN <<>>
    ELSE IF Len(words) = 1 THEN Lexemes[words[1]]
    ELSE Lexemes[words[1]] \o <<" ">> \o Source(Tail(words))


\* the longest sequence of lexemes tried in every combination
MaxTokens == 2

RECURSIVE WordSeqs(_)
WordSeqs(n) ==
    IF n = 0 THEN {<<>>}
    ELSE WordSeqs(n - 1) \cup
         {Append(w, x) : w \in {v \in WordSeqs(n - 1) : Len(v) = n - 1},
                          x \in DOMAIN Lexemes}

\* programs that use every production of the grammar
Programs ==
    << <<"PRINT", "NUMBER", "COMMA", "STR_plain", "NEWLINE", "DOLLAR", "IDENT", "ARROW",
         "LBRACKET", "NUMBER", "COMMA", "DOLLAR", "IDENT", "LBRACKET", "NUMBER",
         "RBRACKET", "RBRACKET">>,
       <<"IF", "TRUE", "LBRACE", "BREAK", "RBRACE", "ELSE", "LBRACE", "CONTINUE",
         "NEWLINE", "RBRACE">>,
       <<"WHILE", "NOT", "FALSE", "OR", "NUMBER", "CMP", "NUMBER", "AND", "NUMBER",
         "LBRACE", "NEWLINE", "RETURN", "MINUS", "NUMBER", "POWER", "NUMBER", "TIMES",
         "NUMBER", "PLUS", "NUMBER", "NEWLINE", "RBRACE">>,
       <<"FORLOOP", "DOLLAR", "IDENT", "IN", "IDENT", "LPAREN", "NUMBER", "COMMA",
         "NUMBER", "RPAREN", "LBRACE", "RBRACE">>,
       <<"FUNC", "IDENT", "LPAREN", "IDENT", "COMMA", "IDENT", "RPAREN", "LBRACE",
         "PRINT", "LPAREN", "NUMBER", "RPAREN", "RBRACE", "NEWLINE", "IDENT", "LPAREN",
         "RPAREN">>,
       <<"PRINT", "STR_hex", "COMMA", "STR_newline", "COMMA", "LBRACKET", "RBRACKET">>,
       <<"IF", "IDENT", "LBRACE", "PRINT", "STR_truncated", "RBRACE">>,
       <<"FUNC", "IDENT", "LPAREN", "RPAREN", "LBRACE", "RBRACE">> >>

\* every program above cut off after each of its lexemes
Prefixes(words) == {SubSeq(words, 1, n) : n \in 0..Len(words)}

ParseSources ==
    {Source(w) : w \in WordSeqs(MaxTokens) \cup
                       UNION {Prefixes(Programs[j]) : j \in 1..Len(Programs)}}

NoParseError == [expected |-> "", got |-> "", pos |-> -1]

\* main: tokens = lex(src); parser = Parser(tokens); parser.parse() is entered
InitParse ==
    /\ \E src \in ParseSources :
          parser = [src |-> src, ts |-> lex(src), i |-> 0,
                    stack |-> <<[fn |-> "parse", pc |-> "start"]>>,
                    result |-> "parsing", err |-> NoParseError,
                    stmts |-> 0, str |-> <<>>]
    /\ IdleEval
    /\ lx = <<>>
    /\ ix = <<>>

\* self.ts[self.i]
Cur(p) == p.ts[p.i + 1]

peek(p, types) == Cur(p).type \in types

\* an exception is on its way out of parse
Failed(p) == p.result # "parsing"

\* raise ParseError(f'Expected {ttype}, got {tok.type} at {tok.pos}'), and the
\* 'Unexpected token' of primary with expected = ""
ParseErrorAt(p, expected) ==
    [p EXCEPT !.result = "ParseError", !.stack = <<>>,
              !.err = [expected |-> expected, got |-> Cur(p).type, pos |-> Cur(p).pos]]

consume(p) == [p EXCEPT !.i = @ + 1]

expect(p, ttype) ==
    IF Failed(p) THEN p
    ELSE IF Cur(p).type # ttype THEN ParseErrorAt(p, ttype)
    ELSE consume(p)

match(p, ttype) == IF Failed(p) \/ ~peek(p, {ttype}) THEN p ELSE expect(p, ttype)

\* the method in progress and the place in it
Method(p) == Top(p.stack).fn
Pc(p)     == Top(p.stack).pc

\* the method in progress goes on at pc
Goto(p, pc) ==
    IF Failed(p) THEN p
    ELSE [p EXCEPT !.stack = SetTop(@, [fn |-> Method(p), pc |-> pc])]

\* self.fn() is called, the caller going on at pc when it returns
Enter(p, fn, pc) ==
    IF Failed(p) THEN p
    ELSE [p EXCEPT !.stack = Push(SetTop(@, [fn |-> Method(p), pc |-> pc]),
                                  [fn |-> fn, pc |-> "start"])]

\* the method in progress returns its node
Leave(p) == IF Failed(p) THEN p ELSE [p EXCEPT !.stack = Pop(@)]

In(fn) ==
    /\ parser # <<>>
    /\ parser.result = "parsing"
    /\ Method(parser) = fn

\* Parser.parse
parse(p) ==
    IF Pc(p) = "start"
    THEN IF peek(p, {"EOF"}) THEN [p EXCEPT !.result = "Program", !.stack = <<>>]
         ELSE IF peek(p, {"NEWLINE"}) THEN expect(p, "NEWLINE")
         ELSE Enter(p, "statement", "append")
    ELSE Goto(match([p EXCEPT !.stmts = @ + 1], "NEWLINE"), "start")

\* Parser.block
block(p) ==
    CASE Pc(p) = "start" -> Goto(expect(p, "LBRACE"), "loop")
      [] Pc(p) = "loop" ->
            IF peek(p, {"RBRACE"}) THEN Leave(expect(p, "RBRACE"))
            ELSE IF peek(p, {"NEWLINE"}) THEN expect(p, "NEWLINE")
            ELSE Enter(p, "statement", "append")
      [] Pc(p) = "append" -> Goto(match(p, "NEWLINE"), "loop")

\* while self.match('COMMA'): params.append(self.expect('IDENT').value)
RECURSIVE more_params(_)
more_params(p) ==
    IF Failed(p) \/ ~peek(p, {"COMMA"}) THEN p
    ELSE more_params(expect(expect(p, "COMMA"), "IDENT"))

params(p) ==
    IF Failed(p) \/ peek(p, {"RPAREN"}) THEN p
    ELSE more_params(expect(p, "IDENT"))

\* Parser.statement
statement(p) ==
    CASE Pc(p) = "start" ->
            IF peek(p, {"PRINT"}) THEN Enter(expect(p, "PRINT"), "expr", "args")
            ELSE IF peek(p, {"DOLLAR"})
            THEN Enter(expect(expect(expect(p, "DOLLAR"), "IDENT"), "ARROW"),
                       "expr", "return")
            ELSE IF peek(p, {"IF"}) THEN Enter(expect(p, "IF"), "expr", "then")
            ELSE IF peek(p, {"WHILE"}) THEN Enter(expect(p, "WHILE"), "expr", "body")
            ELSE IF peek(p, {"FORLOOP"})
            THEN Enter(expect(expect(expect(expect(p, "FORLOOP"), "DOLLAR"), "IDENT"), "IN"),
                       "expr", "body")
            ELSE IF peek(p, {"FUNC"})
            THEN Enter(expect(params(expect(expect(expect(p, "FUNC"), "IDENT"), "LPAREN")),
                              "RPAREN"),
                       "block", "return")
            ELSE IF peek(p, {"RETURN"}) THEN Enter(expect(p, "RETURN"), "expr", "return")
            ELSE IF peek(p, {"BREAK"}) THEN Leave(expect(p, "BREAK"))
            ELSE IF peek(p, {"CONTINUE"}) THEN Leave(expect(p, "CONTINUE"))
            ELSE Enter(p, "expr", "return")
      [] Pc(p) = "args" ->
            IF peek(p, {"COMMA"}) THEN Enter(expect(p, "COMMA"), "expr", "args")
            ELSE Leave(p)
      [] Pc(p) = "then" -> Enter(p, "block", "else")
      [] Pc(p) = "else" ->
            IF peek(p, {"ELSE"}) THEN Enter(expect(p, "ELSE"), "block", "return")
            ELSE Leave(p)
      [] Pc(p) = "body" -> Enter(p, "block", "return")
      [] Pc(p) = "return" -> Leave(p)

\* Parser.expr
expr(p) == IF Pc(p) = "start" THEN Enter(p, "logical_or", "return") ELSE Leave(p)

\* node = self.sub(); while <operator>: expect it; right = self.sub()
LeftAssoc(p, sub, operator) ==
    IF Pc(p) = "start" THEN Enter(p, sub, "loop")
    ELSE IF operator THEN Enter(consume(p), sub, "loop")
    ELSE Leave(p)

OpIn(p, values) == peek(p, {"OP"}) /\ Cur(p).value \in values

logical_or(p)  == LeftAssoc(p, "logical_and", peek(p, {"OR"}))
logical_and(p) == LeftAssoc(p, "logical_not", peek(p, {"AND"}))

logical_not(p) ==
    IF Pc(p) = "start"
    THEN IF peek(p, {"NOT"}) THEN Enter(expect(p, "NOT"), "logical_not", "return")
         ELSE Enter(p, "compare", "return")
    ELSE Leave(p)

compare(p) == LeftAssoc(p, "term", peek(p, {"CMP"}))
term(p)    == LeftAssoc(p, "factor", OpIn(p, {<<"+">>, <<"-">>}))
factor(p)  == LeftAssoc(p, "power", OpIn(p, {<<"*">>, <<"/">>, <<"%">>}))
power(p)   == LeftAssoc(p, "unary", OpIn(p, {<<"^">>}))

\* Parser.unary, as far as the tokens go
unary_(p) ==
    IF Pc(p) = "start"
    THEN IF OpIn(p, {<<"-">>}) THEN Enter(expect(p, "OP"), "unary", "return")
         ELSE Enter(p, "primary", "return")
    ELSE Leave(p)

\* raw = self.expect('STRING').value; s = bytes(raw[1:-1], ...).decode(...)
Str_decode(p) ==
    LET raw == Cur(p).value
        s   == unicode_escape(SubSeq(raw, 2, Len(raw) - 1), 1)
    IN IF s.ok THEN Leave([consume(p) EXCEPT !.str = s.s])
       ELSE [consume(p) EXCEPT !.result = "UnicodeDecodeError", !.stack = <<>>]

\* Parser.primary
primary(p) ==
    CASE Pc(p) = "start" ->
            IF peek(p, {"NUMBER"}) THEN Leave(expect(p, "NUMBER"))
            ELSE IF peek(p, {"STRING"}) THEN Str_decode(p)
            ELSE IF peek(p, {"TRUE"}) THEN Leave(expect(p, "TRUE"))
            ELSE IF peek(p, {"FALSE"}) THEN Leave(expect(p, "FALSE"))
            ELSE IF peek(p, {"LBRACKET"})
            THEN LET q == expect(p, "LBRACKET")
                 IN IF peek(q, {"RBRACKET"}) THEN Leave(expect(q, "RBRACKET"))
                    ELSE Enter(q, "expr", "elements")
            ELSE IF peek(p, {"DOLLAR"})
            THEN Goto(expect(expect(p, "DOLLAR"), "IDENT"), "index")
            ELSE IF peek(p, {"IDENT"})
            THEN LET q == expect(p, "IDENT")
                 IN IF ~peek(q, {"LPAREN"}) THEN Leave(q)
                    ELSE LET r == expect(q, "LPAREN")
                         IN IF peek(r, {"RPAREN"}) THEN Leave(expect(r, "RPAREN"))
                            ELSE Enter(r, "expr", "args")
            ELSE IF peek(p, {"LPAREN"}) THEN Enter(expect(p, "LPAREN"), "expr", "paren")
            ELSE ParseErrorAt(p, "")
      [] Pc(p) = "elements" ->
            IF peek(p, {"COMMA"}) THEN Enter(expect(p, "COMMA"), "expr", "elements")
            ELSE Leave(expect(p, "RBRACKET"))
      [] Pc(p) = "index" ->
            IF peek(p, {"LBRACKET"}) THEN Enter(expect(p, "LBRACKET"), "expr", "subscript")
            ELSE Leave(p)
      [] Pc(p) = "subscript" -> Goto(expect(p, "RBRACKET"), "index")
      [] Pc(p) = "args" ->
            IF peek(p, {"COMMA"}) THEN Enter(expect(p, "COMMA"), "expr", "args")
            ELSE Leave(expect(p, "RPAREN"))
      [] Pc(p) = "paren" -> Leave(expect(p, "RPAREN"))

Parser_parse ==
    /\ In("parse")
    /\ parser' = parse(parser)
    /\ UNCHANGED evalVars
    /\ UNCHANGED <<lx, ix>>

Parser_block ==
    /\ In("block")
    /\ parser' = block(parser)
    /\ UNCHANGED evalVars
    /\ UNCHANGED <<lx, ix>>

Parser_statement ==
    /\ In("statement")
    /\ parser' = statement(parser)
    /\ UNCHANGED evalVars
    /\ UNCHANGED <<lx, ix>>

Parser_expr ==
    /\ In("expr")
    /\ parser' = expr(parser)
    /\ UNCHANGED evalVars
    /\ UNCHANGED <<lx, ix>>

Parser_logical_or ==
    /\ In("logical_or")
    /\ parser' = logical_or(parser)
    /\ UNCHANGED evalVars
    /\ UNCHANGED <<lx, ix>>

Parser_logical_and ==
    /\ In("logical_and")
    /\ parser' = logical_and(parser)
    /\ UNCHANGED evalVars
    /\ UNCHANGED <<lx, ix>>

Parser_logical_not ==
    /\ In("logical_not")
    /\ parser' = logical_not(parser)
    /\ UNCHANGED evalVars
    /\ UNCHANGED <<lx, ix>>

Parser_compare ==
    /\ In("compare")
    /\ parser' = compare(parser)
    /\ UNCHANGED evalVars
    /\ UNCHANGED <<lx, ix>>

Parser_term ==
    /\ In("term")
    /\ parser' = term(parser)
    /\ UNCHANGED evalVars
    /\ UNCHANGED <<lx, ix>>

Parser_factor ==
    /\ In("factor")
    /\ parser' = factor(parser)
    /\ UNCHANGED evalVars
    /\ UNCHANGED <<lx, ix>>

Parser_power ==
    /\ In("power")
    /\ parser' = power(parser)
    /\ UNCHANGED evalVars
    /\ UNCHANGED <<lx, ix>>

Parser_unary ==
    /\ In("unary")
    /\ parser' = unary_(parser)
    /\ UNCHANGED evalVars
    /\ UNCHANGED <<lx, ix>>

Parser_primary ==
    /\ In("primary")
    /\ parser' = primary(parser)
    /\ UNCHANGED evalVars
    /\ UNCHANGED <<lx, ix>>

NextParse ==
    \/ Parser_parse \/ Parser_block \/ Parser_statement \/ Parser_expr
    \/ Parser_logical_or \/ Parser_logical_and \/ Parser_logical_not
    \/ Parser_compare \/ Parser_term \/ Parser_factor \/ Parser_power
    \/ Parser_unary \/ Parser_primary

\* main runs parse to its end: the one thread of the program is never held up
SpecParse == InitParse /\ [][NextParse]_vars /\ WF_vars(NextParse)


\* parse has ended: a Program is returned or an exception has left it
Ended == parser.result # "parsing"

\* the token the parser stands on is a token of the list: the EOF token is
\* never stepped over
WithinTokens == parser.i + 1 <= Len(parser.ts)

\* a ParseError names the offset of a token of the list
NamesOffset ==
    (parser.result = "ParseError") =>
        \E j \in 1..Len(parser.ts) :
            /\ parser.ts[j].pos = parser.err.pos
            /\ parser.ts[j].type = parser.err.got

\* the tokens are lex's: one EOF token, the last
EndsInOneEOF ==
    \A j \in 1..Len(parser.ts) : (parser.ts[j].type = "EOF") <=> (j = Len(parser.ts))

\* parse ends in a Program or in a ParseError, in nothing else
ProgramOrParseError == parser.result \in {"parsing", "Program", "ParseError"}

\* C11: parser totality. For every token list of lex (ending in exactly one
\* EOF token) parse terminates, returning a Program or raising a ParseError
\* that names a token offset, and it never reads past the EOF token.
C11_ParserTotality ==
    /\ [](EndsInOneEOF /\ WithinTokens /\ NamesOffset /\ ProgramOrParseError)
    /\ <>Ended

\* the parts of C11 that hold: parse terminates, within the tokens, and a
\* ParseError names a token offset
C11_Terminates == <>Ended
C11_NeverPastEOF == EndsInOneEOF /\ WithinTokens
C11_ErrorNamesOffset == NamesOffset

\* the exception that leaves parse when a STRING holds a truncated \x escape
C11_DecodeErrorEscapes ==
    /\ parser.result = "UnicodeDecodeError"
    /\ parser.ts[parser.i].type = "STRING"

=============================================================================
